---------------------------- MODULE Spec2Model ----------------------------
(***************************************************************************)
(* Model of the Eliza front-end services:                                  *)
(*   - EnhancedTTSService   (src/src/services/enhancedTTSService.ts)       *)
(*   - the three edge proxies (src/unnamed/part_000 = Variant A,           *)
(*     src/unnamed/part_001 = Variant B,                                   *)
(*     src/supabase/functions/openai-chat/index.ts = Variant C)            *)
(*   - GeminiDirectService  (src/src/services/geminiDirectService.ts)      *)
(* Each subsystem has its own specification over the shared variables:     *)
(* SpecTTS, SpecProxy, SpecGemini and SpecPure (the pure list functions).  *)
(***************************************************************************)
EXTENDS Integers, Sequences, FiniteSets, TLC

VARIABLES
    \* ---- EnhancedTTSService and the platform speech synthesis ----
    supported,          \* 'speechSynthesis' in window
    isInitialized,      \* EnhancedTTSService.isInitialized
    currentUtterance,   \* EnhancedTTSService.currentUtterance (0 = null)
    nextId,             \* number of speak() calls made so far
    text,               \* text[u]: the text of speak() call u
    ust,                \* ust[u]: position of speak() call u / its utterance
    pending,            \* speak() calls suspended at an await, in call order
    queue,              \* the platform's utterance queue (head is spoken first)
    speaking,           \* window.speechSynthesis.speaking
    events,             \* utterance events the platform has yet to dispatch
    promise,            \* promise[u]: state of the promise speak() returned
    settles,            \* settles[u]: resolve()/reject()/return executed for u
    cutOff,             \* cutOff[u]: u was removed from the platform by cancel()
    lastOp,             \* the wrapper entry point or callback that ran last
    stopped,            \* stopped[u]: stop() has returned since speak() call u
                         \* created its utterance
    \* ---- one edge proxy request (Variants A, B, C) ----
    req,                \* the request being handled and the proxy's environment
    pc,                 \* position of the handler: idle, json, fetch, readok,
                         \* readerr, done
    fetches,            \* outbound gateway requests issued for this request
    payload,            \* the messages of the outbound gateway request
    gwStatus,           \* the HTTP status the gateway answered with (0 = none)
    gwBody,             \* what the gateway's body held, once read
    threw,              \* message of the exception raised in the handler
    resp,               \* the response the handler returned
    nresp,              \* responses returned for this request
    \* ---- GeminiDirectService and its key manager ----
    genAI,              \* GeminiDirectService.genAI: "none" = null, else the key
                         \* it was constructed from
    curKey,             \* apiKeyManager.getCurrentApiKey(): "none" = null
    keyWorking,         \* apiKeyManager: markKeyAsWorking() has been called
    calls,              \* calls[c]: generateResponse call c
    \* ---- the list functions applied to one input ----
    pIn,                \* the input drawn
    pStage,             \* which function has been applied to it
    pOut                \* what it produced

ttsVars == <<supported, isInitialized, currentUtterance, nextId, text, ust,
             pending, queue, speaking, events, promise, settles, cutOff, lastOp,
             stopped>>

proxyVars == <<req, pc, fetches, payload, gwStatus, gwBody, threw, resp, nresp>>

gemVars == <<genAI, curKey, keyWorking, calls>>
pureVars == <<pIn, pStage, pOut>>

vars == <<ttsVars, proxyVars, gemVars, pureVars>>

nonTTS == <<proxyVars, gemVars, pureVars>>
nonProxy == <<ttsVars, gemVars, pureVars>>
nonGemini == <<ttsVars, proxyVars, pureVars>>
nonPure == <<ttsVars, proxyVars, gemVars>>

(***************************************************************************)
(*                         EnhancedTTSService                              *)
(***************************************************************************)

MaxSpeak == 3
Texts == {"hello", "world"}
Utter == 1..MaxSpeak

\* SpeechSynthesisErrorCode values the platform reports for an utterance that
\* cancel() removed while it was being spoken: "interrupted" is the Web Speech
\* API's code, "canceled" the one the code's comment expects.
CancelSpeakingKinds == {"interrupted", "canceled"}
\* Playback errors that are not caused by cancel().
OtherErrors == {"synthesis-failed"}

RECURSIVE CancelEvents(_, _, _)
\* The error events cancel() causes for the utterances of queue q, in order.
CancelEvents(q, st, k) ==
    IF q = <<>> THEN <<>>
    ELSE <<[u |-> Head(q),
            kind |-> IF st[Head(q)] = "speaking" THEN k ELSE "canceled"]>>
         \o CancelEvents(Tail(q), st, k)

InQueue(u) == \E i \in 1..Len(queue) : queue[i] = u

\* speak() call u has created its utterance, which has not yet left the
\* platform: its timer is armed, or it is queued or being spoken.
Created(u) == ust[u] \in {"timer", "queued", "speaking"}

\* isSpeaking()
isSpeaking == currentUtterance # 0 /\ speaking

InitTTS ==
    /\ supported \in BOOLEAN
    /\ isInitialized = FALSE
    /\ currentUtterance = 0
    /\ nextId = 0
    /\ text = [u \in Utter |-> "hello"]
    /\ ust = [u \in Utter |-> "none"]
    /\ pending = <<>>
    /\ queue = <<>>
    /\ speaking = FALSE
    /\ events = <<>>
    /\ promise = [u \in Utter |-> "none"]
    /\ settles = [u \in Utter |-> 0]
    /\ cutOff = [u \in Utter |-> FALSE]
    /\ lastOp = "init"
    /\ stopped = [u \in Utter |-> FALSE]

\* The wrapper untouched (the state of the other specifications).
IdleTTS ==
    /\ supported = TRUE
    /\ isInitialized = FALSE
    /\ currentUtterance = 0
    /\ nextId = 0
    /\ text = [u \in Utter |-> "hello"]
    /\ ust = [u \in Utter |-> "none"]
    /\ pending = <<>>
    /\ queue = <<>>
    /\ speaking = FALSE
    /\ events = <<>>
    /\ promise = [u \in Utter |-> "none"]
    /\ settles = [u \in Utter |-> 0]
    /\ cutOff = [u \in Utter |-> FALSE]
    /\ lastOp = "init"
    /\ stopped = [u \in Utter |-> FALSE]

\* speak(text), up to its first await (lines 25-38).  An initialized wrapper on
\* a platform without speech synthesis returns at line 33 without suspending.
SpeakCall(t) ==
    /\ nextId < MaxSpeak
    /\ LET u == nextId + 1 IN
       /\ nextId' = u
       /\ text' = [text EXCEPT ![u] = t]
       /\ IF isInitialized /\ ~supported
          THEN /\ ust' = [ust EXCEPT ![u] = "returned"]
               /\ promise' = [promise EXCEPT ![u] = "resolved"]
               /\ settles' = [settles EXCEPT ![u] = 1]
               /\ pending' = pending
          ELSE /\ ust' = [ust EXCEPT ![u] = "awaiting"]
               /\ promise' = [promise EXCEPT ![u] = "pending"]
               /\ settles' = settles
               /\ pending' = Append(pending, u)
    /\ lastOp' = "speak"
    /\ UNCHANGED nonTTS
    /\ UNCHANGED stopped
    /\ UNCHANGED <<supported, isInitialized, currentUtterance, queue, speaking,
                   events, cutOff>>

\* The platform's cancel(): every queued utterance leaves the queue and gets an
\* error event; the speaking flag is cleared now or when the platform catches up.
PlatformCancel(k, flag) ==
    /\ events' = events \o CancelEvents(queue, ust, k)
    /\ queue' = <<>>
    /\ cutOff' = [u \in Utter |-> cutOff[u] \/ InQueue(u)]
    /\ speaking' = (speaking /\ flag)

\* speak() resumed after its awaits (lines 26-85): initialize() has completed,
\* then either the unsupported return, or cancel(), the new utterance installed
\* as currentUtterance and the 50 ms timer armed.
SpeakResume ==
    /\ pending # <<>>
    /\ LET u == Head(pending) IN
       /\ pending' = Tail(pending)
       /\ isInitialized' = TRUE
       /\ IF ~supported
          THEN /\ ust' = [ust EXCEPT ![u] = "returned"]
               /\ promise' = [promise EXCEPT ![u] = "resolved"]
               /\ settles' = [settles EXCEPT ![u] = 1]
               /\ UNCHANGED <<currentUtterance, queue, speaking, events, cutOff>>
          ELSE /\ \E k \in CancelSpeakingKinds, flag \in BOOLEAN :
                      PlatformCancel(k, flag)
               /\ currentUtterance' = u
               /\ ust' = [[v \in Utter |-> IF InQueue(v) THEN "evt" ELSE ust[v]]
                              EXCEPT ![u] = "timer"]
               /\ UNCHANGED <<promise, settles>>
    /\ lastOp' = "resume"
    /\ UNCHANGED nonTTS
    /\ UNCHANGED stopped
    /\ UNCHANGED <<supported, nextId, text>>

\* The setTimeout(..., 50) callback: window.speechSynthesis.speak(utterance).
\* Timers of equal delay fire in the order they were armed.
TimerFire ==
    /\ \E u \in Utter :
          /\ ust[u] = "timer"
          /\ \A v \in Utter : ust[v] = "timer" => u <= v
          /\ queue' = Append(queue, u)
          /\ ust' = [ust EXCEPT ![u] = "queued"]
    /\ lastOp' = "timer"
    /\ UNCHANGED nonTTS
    /\ UNCHANGED stopped
    /\ UNCHANGED <<supported, isInitialized, currentUtterance, nextId, text,
                   pending, speaking, events, promise, settles, cutOff>>

\* The platform begins to speak the utterance at the head of its queue.
PlatformStart ==
    /\ queue # <<>>
    /\ ust[Head(queue)] = "queued"
    /\ ust' = [ust EXCEPT ![Head(queue)] = "speaking"]
    /\ speaking' = TRUE
    /\ UNCHANGED nonTTS
    /\ UNCHANGED stopped
    /\ UNCHANGED <<supported, isInitialized, currentUtterance, nextId, text,
                   pending, queue, events, promise, settles, cutOff, lastOp>>

\* The platform finishes the utterance it is speaking: an "end" event.
PlatformEnd ==
    /\ queue # <<>>
    /\ ust[Head(queue)] = "speaking"
    /\ events' = Append(events, [u |-> Head(queue), kind |-> "end"])
    /\ ust' = [ust EXCEPT ![Head(queue)] = "evt"]
    /\ queue' = Tail(queue)
    /\ speaking' = FALSE
    /\ UNCHANGED nonTTS
    /\ UNCHANGED stopped
    /\ UNCHANGED <<supported, isInitialized, currentUtterance, nextId, text,
                   pending, promise, settles, cutOff, lastOp>>

\* The platform fails the utterance at the head of its queue: an error event
\* that no cancel() caused.
PlatformError ==
    /\ queue # <<>>
    /\ \E k \in OtherErrors :
          events' = Append(events, [u |-> Head(queue), kind |-> k])
    /\ ust' = [ust EXCEPT ![Head(queue)] = "evt"]
    /\ queue' = Tail(queue)
    /\ speaking' = FALSE
    /\ UNCHANGED nonTTS
    /\ UNCHANGED stopped
    /\ UNCHANGED <<supported, isInitialized, currentUtterance, nextId, text,
                   pending, promise, settles, cutOff, lastOp>>

\* The platform clears a speaking flag that a cancel() left set.
PlatformSettle ==
    /\ speaking
    /\ \A u \in Utter : ust[u] # "speaking"
    /\ speaking' = FALSE
    /\ UNCHANGED nonTTS
    /\ UNCHANGED stopped
    /\ UNCHANGED <<supported, isInitialized, currentUtterance, nextId, text, ust,
                   pending, queue, events, promise, settles, cutOff, lastOp>>

\* The promise state after utterance.onend / utterance.onerror ran for an
\* event of kind k: onend resolves, onerror resolves on "canceled" only.
Settle(p, k) ==
    IF p # "pending" THEN p
    ELSE IF k = "end" \/ k = "canceled" THEN "resolved" ELSE "rejected"

\* The platform dispatches its oldest event: utterance.onend (lines 63-67) or
\* utterance.onerror (lines 69-79).  Both clear currentUtterance.
DispatchEvent ==
    /\ events # <<>>
    /\ LET e == Head(events) IN
       /\ events' = Tail(events)
       /\ currentUtterance' = 0
       /\ promise' = [promise EXCEPT ![e.u] = Settle(promise[e.u], e.kind)]
       /\ settles' = [settles EXCEPT ![e.u] = settles[e.u] + 1]
       /\ ust' = [ust EXCEPT ![e.u] = "finished"]
    /\ lastOp' = "event"
    /\ UNCHANGED nonTTS
    /\ UNCHANGED stopped
    /\ UNCHANGED <<supported, isInitialized, nextId, text, pending, queue,
                   speaking, cutOff>>

\* stop() with line 128 left out: the platform is cancelled, the handle kept.
StopKeepsHandle ==
    /\ IF currentUtterance # 0
       THEN /\ \E k \in CancelSpeakingKinds, flag \in BOOLEAN :
                   PlatformCancel(k, flag)
            /\ ust' = [v \in Utter |-> IF InQueue(v) THEN "evt" ELSE ust[v]]
            /\ currentUtterance' = currentUtterance
       ELSE UNCHANGED <<events, queue, cutOff, speaking, ust, currentUtterance>>
    /\ stopped' = [u \in Utter |-> stopped[u] \/ Created(u)]
    /\ lastOp' = "stop"
    /\ UNCHANGED nonTTS
    /\ UNCHANGED <<supported, isInitialized, nextId, text, pending, promise,
                   settles>>

\* stop() (lines 125-130).
Stop ==
    /\ IF currentUtterance # 0
       THEN /\ \E k \in CancelSpeakingKinds, flag \in BOOLEAN :
                   PlatformCancel(k, flag)
            /\ ust' = [v \in Utter |-> IF InQueue(v) THEN "evt" ELSE ust[v]]
            /\ currentUtterance' = 0
       ELSE UNCHANGED <<events, queue, cutOff, speaking, ust, currentUtterance>>
    /\ stopped' = [u \in Utter |-> stopped[u] \/ Created(u)]
    /\ lastOp' = "stop"
    /\ UNCHANGED nonTTS
    /\ UNCHANGED <<supported, isInitialized, nextId, text, pending, promise,
                   settles>>

NextTTS ==
    \/ \E t \in Texts : SpeakCall(t)
    \/ SpeakResume
    \/ TimerFire
    \/ PlatformStart
    \/ PlatformEnd
    \/ PlatformError
    \/ PlatformSettle
    \/ DispatchEvent
    \/ Stop

(***************************************************************************)
(*                           The edge proxies                              *)
(*  A request is handled in the steps its awaits cut it into: req.json(),  *)
(*  fetch(), and the read of the gateway's body.  The gateway's answer and *)
(*  its body are drawn when the await settles; a body, once fetch has      *)
(*  resolved, is delivered (response.text() returns, response.json() can   *)
(*  fail to parse).  Fields the handlers only forward or log (model,       *)
(*  temperature, max_tokens, usage) are left out.                          *)
(***************************************************************************)

MaxMsgs == 11
RecentA == 10
RecentB == 3

Variants == {"A", "B", "C"}
Methods == {"OPTIONS", "POST", "GET"}
\* What req.json() finds: no JSON, the JSON value null, a JSON object.
Bodies == {"unparseable", "null", "object"}
\* HTTP statuses of the gateway.
Statuses == {200, 429, 402, 500}
\* What the gateway's body holds: no JSON, null, {}, {choices: []},
\* {choices: [{message: {content}}]}, {error: {message}}.
GwBodies == {"notjson", "null", "nochoices", "emptychoices", "content", "errmsg"}

Max(a, b) == IF a >= b THEN a ELSE b
Min(a, b) == IF a <= b THEN a ELSE b

\* s.slice(0, n) in place of s.slice(-n): the wrong end of the list.
LastNFromFront(s, n) == SubSeq(s, 1, Min(Len(s), n))

\* s.slice(-n): the elements from index max(length - n, 0) on.
LastN(s, n) == SubSeq(s, Max(Len(s) - n, 0) + 1, Len(s))

\* JSON.stringify(c) of a message content: a string, the JSON text of c.
JSONstringify(c) == [type |-> "string", val |-> c.val, json |-> TRUE]

\* The i-th message of a request: a client-side id, a role and a content that
\* is a string, or (for i = o) an object.
Msg(i, o) ==
    [id |-> i,
     role |-> IF i % 2 = 1 THEN "user" ELSE "assistant",
     content |-> [type |-> IF i = o THEN "object" ELSE "string",
                  val |-> i, json |-> FALSE]]

MsgList(n, o) == [i \in 1..n |-> Msg(i, o)]

\* The values `messages` takes in a request body: absent, an object that is no
\* array, a string (which has slice but no map), an array of messages.
MsgValues ==
    {[kind |-> "absent", items |-> <<>>], [kind |-> "object", items |-> <<>>]}
    \cup {[kind |-> "string", items |-> [i \in 1..n |-> [char |-> i]]] :
              n \in 1..2}
    \cup {[kind |-> "array", items |-> MsgList(n, o)] :
              n \in 0..MaxMsgs, o \in 0..1}
    \cup {[kind |-> "array", items |-> MsgList(n, n)] : n \in 1..MaxMsgs}

\* The requests: key is whether LOVABLE_API_KEY is set, ctxBad whether the
\* latest conversation summary lacks its summaryText (Variant A reads it).
Requests ==
    {r \in [variant : Variants, method : Methods, body : Bodies,
            msgs : MsgValues, key : BOOLEAN, ctxBad : BOOLEAN] :
        /\ r.body # "object" => (r.msgs.kind = "absent" /\ ~r.ctxBad)
        /\ r.variant # "A" => ~r.ctxBad
        /\ r.method = "OPTIONS" =>
               (r.body = "object" /\ r.msgs.kind = "absent" /\ r.key /\ ~r.ctxBad)}

NoRequest ==
    [variant |-> "A", method |-> "OPTIONS", body |-> "object",
     msgs |-> [kind |-> "absent", items |-> <<>>], key |-> TRUE, ctxBad |-> FALSE]

SystemMsg(v) ==
    [role |-> "system", content |-> [type |-> "string", val |-> 0, json |-> FALSE]]

Threw(msg) == [err |-> msg, payload |-> <<>>]
Sends(p) == [err |-> "none", payload |-> p]

\* Variant A from req.json() to the fetch() call (lines 14-61).
PreFetchA(r) ==
    IF r.body = "unparseable" THEN Threw("SyntaxError")
    ELSE IF r.body = "null" THEN Threw("TypeError")
    ELSE IF ~r.key THEN Threw("AI service not configured")
    ELSE IF r.ctxBad THEN Threw("TypeError")
    ELSE IF r.msgs.kind \in {"absent", "object"} THEN Threw("TypeError")
    ELSE Sends(<<SystemMsg("A")>> \o LastN(r.msgs.items, RecentA))

\* Variant B's message map (lines 30-33): role and content only, a content
\* that is no string serialized.
StripB(m) ==
    [role |-> m.role,
     content |-> IF m.content.type = "string" THEN m.content
                 ELSE JSONstringify(m.content)]

\* Variant B from req.json() to the fetch() call (lines 16-53).
PreFetchB(r) ==
    IF r.body = "unparseable" THEN Threw("SyntaxError")
    ELSE IF r.body = "null" THEN Threw("TypeError")
    ELSE IF ~r.key THEN Threw("AI service not configured")
    ELSE IF r.msgs.kind # "array" THEN Threw("TypeError")
    ELSE LET recent == LastN(r.msgs.items, RecentB) IN
         Sends(<<SystemMsg("B")>> \o [i \in 1..Len(recent) |-> StripB(recent[i])])

\* Variant C with the key looked up before the messages are validated.
PreFetchCKeyFirst(r) ==
    IF r.body = "unparseable" THEN Threw("SyntaxError")
    ELSE IF r.body = "null" THEN Threw("TypeError")
    ELSE IF ~r.key THEN Threw("LOVABLE_API_KEY not configured")
    ELSE IF r.msgs.kind # "array" THEN Threw("Messages array is required")
    ELSE Sends(r.msgs.items)

\* Variant C from req.json() to the fetch() call (lines 16-48).
PreFetchC(r) ==
    IF r.body = "unparseable" THEN Threw("SyntaxError")
    ELSE IF r.body = "null" THEN Threw("TypeError")
    ELSE IF r.msgs.kind # "array" THEN Threw("Messages array is required")
    ELSE IF ~r.key THEN Threw("LOVABLE_API_KEY not configured")
    ELSE Sends(r.msgs.items)

PreFetch(r) ==
    CASE r.variant = "A" -> PreFetchA(r)
      [] r.variant = "B" -> PreFetchB(r)
      [] r.variant = "C" -> PreFetchC(r)

\* new Response(JSON.stringify(body), {status, headers: corsHeaders + JSON}).
JsonResponse(status, success, nested, msg, response) ==
    [status |-> status, cors |-> TRUE, body |-> "json", success |-> success,
     errNested |-> nested, error |-> msg, response |-> response]

\* new Response(null, {headers: corsHeaders}).
PreflightResponse ==
    [status |-> 200, cors |-> TRUE, body |-> "empty", success |-> FALSE,
     errNested |-> FALSE, error |-> "", response |-> ""]

NoResponse ==
    [status |-> 0, cors |-> FALSE, body |-> "none", success |-> FALSE,
     errNested |-> FALSE, error |-> "", response |-> ""]

\* The catch block with the status of Variant A's error body (code: 400).
CatchResponse400(v, msg) == JsonResponse(400, FALSE, v = "A", msg, "")

\* The catch block: status 500, error nested in Variant A, flat in B and C.
CatchResponse(v, msg) == JsonResponse(500, FALSE, v = "A", msg, "")

RateLimitMessage(v) ==
    IF v = "C" THEN "Rate limit exceeded, please try again later"
    ELSE "Lovable AI rate limit exceeded. Please try again in a moment."

CreditsMessage(v) ==
    IF v = "C" THEN "Payment required, please add credits to your workspace"
    ELSE "Lovable AI credits exhausted. Please add credits at Settings > Workspace > Usage."

\* The 429 / 402 response with its status option left out (so 200).
GatewayLimitResponse200(v, s) ==
    JsonResponse(200, FALSE, FALSE,
                 IF s = 429 THEN RateLimitMessage(v) ELSE CreditsMessage(v), "")

\* The response to a gateway status s of 429 or 402.
GatewayLimitResponse(v, s) ==
    JsonResponse(s, FALSE, FALSE,
                 IF s = 429 THEN RateLimitMessage(v) ELSE CreditsMessage(v), "")

Fallback == "I'm here to help with XMRT-DAO tasks."

InitProxy ==
    /\ req = NoRequest
    /\ pc = "idle"
    /\ fetches = 0
    /\ payload = <<>>
    /\ gwStatus = 0
    /\ gwBody = "none"
    /\ threw = "none"
    /\ resp = NoResponse
    /\ nresp = 0

\* The handler returns response r.
Respond(r) ==
    /\ resp' = r
    /\ nresp' = nresp + 1
    /\ pc' = "done"

\* An exception with message msg is raised inside the try block: the catch
\* block answers.
Catch(msg) ==
    /\ threw' = msg
    /\ Respond(CatchResponse(req.variant, msg))

\* A request arrives: the preflight answer, or the handler suspends in
\* req.json().
Receive(r) ==
    /\ pc = "idle"
    /\ req' = r
    /\ IF r.method = "OPTIONS"
       THEN Respond(PreflightResponse)
       ELSE /\ pc' = "json"
            /\ UNCHANGED <<resp, nresp>>
    /\ UNCHANGED <<fetches, payload, gwStatus, gwBody, threw>>
    /\ UNCHANGED nonProxy

\* req.json() has settled: the handler runs to its fetch() call, or throws.
BodyParsed ==
    /\ pc = "json"
    /\ LET pf == PreFetch(req) IN
       IF pf.err # "none"
       THEN /\ Catch(pf.err)
            /\ UNCHANGED <<fetches, payload>>
       ELSE /\ fetches' = fetches + 1
            /\ payload' = pf.payload
            /\ pc' = "fetch"
            /\ UNCHANGED <<threw, resp, nresp>>
    /\ UNCHANGED <<req, gwStatus, gwBody>>
    /\ UNCHANGED nonProxy

\* fetch() has settled: rejected (s = 0), or resolved with status s.  Variant
\* C answers 429 and 402 at once; A and B first await response.text().
FetchSettled ==
    /\ pc = "fetch"
    /\ \E s \in {0} \cup Statuses :
          IF s = 0
          THEN /\ Catch("fetch failed")
               /\ UNCHANGED gwStatus
          ELSE /\ gwStatus' = s
               /\ IF s = 200
                  THEN /\ pc' = "readok"
                       /\ UNCHANGED <<threw, resp, nresp>>
                  ELSE IF req.variant = "C" /\ s \in {429, 402}
                  THEN /\ Respond(GatewayLimitResponse("C", s))
                       /\ UNCHANGED threw
                  ELSE /\ pc' = "readerr"
                       /\ UNCHANGED <<threw, resp, nresp>>
    /\ UNCHANGED <<req, fetches, payload, gwBody>>
    /\ UNCHANGED nonProxy

\* The body of a non-2xx answer has been read: response.text() in A and B
\* (part_000 lines 64-88, part_001 lines 56-80), response.json() in C (lines
\* 75-77).
ErrorBody(b) ==
    IF req.variant \in {"A", "B"}
    THEN IF gwStatus \in {429, 402}
         THEN /\ Respond(GatewayLimitResponse(req.variant, gwStatus))
              /\ UNCHANGED threw
         ELSE Catch("Lovable AI Gateway error")
    ELSE IF b = "notjson" THEN Catch("SyntaxError")
    ELSE IF b = "null" THEN Catch("TypeError")
    ELSE IF b = "errmsg" THEN Catch("gateway error message")
    ELSE Catch("AI Gateway request failed")

\* The body of a 2xx answer has been parsed by response.json() (part_000 lines
\* 90-104, part_001 lines 82-96, openai-chat lines 80-93).
SuccessBody(b) ==
    IF b = "notjson" THEN Catch("SyntaxError")
    ELSE IF b = "null" THEN Catch("TypeError")
    ELSE IF req.variant \in {"A", "B"}
    THEN /\ Respond(JsonResponse(200, TRUE, FALSE, "",
                                 IF b = "content" THEN "content" ELSE Fallback))
         /\ UNCHANGED threw
    ELSE IF b \in {"nochoices", "errmsg"} THEN Catch("TypeError")
    ELSE /\ Respond(JsonResponse(200, TRUE, FALSE, "",
                                 IF b = "content" THEN "content" ELSE ""))
         /\ UNCHANGED threw

\* The read of the gateway's body has settled.
BodyRead ==
    /\ pc \in {"readok", "readerr"}
    /\ \E b \in GwBodies :
          /\ gwBody' = b
          /\ IF pc = "readok" THEN SuccessBody(b) ELSE ErrorBody(b)
    /\ UNCHANGED <<req, fetches, payload, gwStatus>>
    /\ UNCHANGED nonProxy

\* The response has been sent; the proxy waits for the next request.
Finish ==
    /\ pc = "done"
    /\ req' = NoRequest
    /\ pc' = "idle"
    /\ fetches' = 0
    /\ payload' = <<>>
    /\ gwStatus' = 0
    /\ gwBody' = "none"
    /\ threw' = "none"
    /\ resp' = NoResponse
    /\ nresp' = 0
    /\ UNCHANGED nonProxy

NextProxy ==
    \/ \E r \in Requests : Receive(r)
    \/ BodyParsed
    \/ FetchSettled
    \/ BodyRead
    \/ Finish

(***************************************************************************)
(*                          GeminiDirectService                            *)
(*  Strings are sequences of characters.  The key manager and the model    *)
(*  are the service's collaborators: the key manager holds a current key   *)
(*  or none, the model answers a request with a text or fails.             *)
(***************************************************************************)

MaxCalls == 2
MaxTextLen == 2
MaxInputLen == 2
MaxKB == 5
RecentDirect == 5
MaxKnowledge == 3

Calls == 1..MaxCalls
\* The keys the key manager may hold.
Keys == {"default", "user"}

\* String.prototype.toLowerCase, character by character.
Lower(c) == CASE c = "A" -> "a" [] c = "B" -> "b" [] OTHER -> c
toLowerCase(s) == [i \in 1..Len(s) |-> Lower(s[i])]

\* s.includes(t)
includes(s, t) == \E i \in 0..(Len(s) - Len(t)) : SubSeq(s, i + 1, i + Len(t)) = t

\* s.slice(0, n)
FirstN(s, n) == SubSeq(s, 1, Min(Len(s), n))

\* The knowledge predicate with the entry's category and topic not lowered.
MatchesCaseSensitive(userInput, item) ==
    \/ includes(toLowerCase(userInput), item.category)
    \/ includes(toLowerCase(userInput), item.topic)

\* The predicate of XMRT_KNOWLEDGE_BASE.filter (lines 51-54).
Matches(userInput, item) ==
    \/ includes(toLowerCase(userInput), toLowerCase(item.category))
    \/ includes(toLowerCase(userInput), toLowerCase(item.topic))

RECURSIVE FilterKnowledge(_, _)
\* kb.filter(item => Matches(userInput, item))
FilterKnowledge(kb, userInput) ==
    IF kb = <<>> THEN <<>>
    ELSE (IF Matches(userInput, Head(kb)) THEN <<Head(kb)>> ELSE <<>>)
         \o FilterKnowledge(Tail(kb), userInput)

\* relevantKnowledge (lines 51-54)
RelevantKnowledge(userInput, kb) ==
    FirstN(FilterKnowledge(kb, userInput), MaxKnowledge)

\* One "User: ..."/"Eliza: ..." line of the conversation context (line 66).
RenderLine(m) ==
    [who |-> IF m.sender = "user" THEN "User" ELSE "Eliza", content |-> m.content]

\* conversationContext (lines 61-69), as its lines; h.present is whether
\* context.conversationHistory is given, h.hasRecent whether it has
\* recentMessages.
ConversationContext(h) ==
    IF ~h.present THEN <<>>
    ELSE LET recentMessages ==
                 IF h.hasRecent THEN LastN(h.recent, RecentDirect) ELSE <<>>
         IN [i \in 1..Len(recentMessages) |-> RenderLine(recentMessages[i])]

\* The i-th message of a conversation history.
DMsg(i) == [sender |-> IF i % 2 = 1 THEN "user" ELSE "assistant", content |-> i]
DMsgList(n) == [i \in 1..n |-> DMsg(i)]

History(kind, n) ==
    [present |-> kind # "absent", hasRecent |-> kind = "list",
     recent |-> IF kind = "list" THEN DMsgList(n) ELSE <<>>]

\* The strings over alphabet cs of length at most n.
Strings(cs, n) == UNION {[1..k -> cs] : k \in 0..n}

\* ---- the response text ----
TextChars == {" ", "x"}
IsSpace(c) == c = " "

RECURSIVE TrimStart(_)
TrimStart(s) == IF s # <<>> /\ IsSpace(Head(s)) THEN TrimStart(Tail(s)) ELSE s
RECURSIVE TrimEnd(_)
TrimEnd(s) ==
    IF s # <<>> /\ IsSpace(s[Len(s)]) THEN TrimEnd(SubSeq(s, 1, Len(s) - 1)) ELSE s
\* String.prototype.trim
trim(s) == TrimEnd(TrimStart(s))

\* What response.text() returns: nothing (undefined, null), or a string.
ResponseTexts ==
    {[present |-> FALSE, chars |-> <<>>]}
    \cup {[present |-> TRUE, chars |-> s] : s \in Strings(TextChars, MaxTextLen)}

\* The emptiness test without the trim.
IsEmptyResponseNoTrim(t) == ~t.present \/ Len(t.chars) = 0

\* !responseText || responseText.trim().length === 0 (line 93)
IsEmptyResponse(t) == ~t.present \/ Len(t.chars) = 0 \/ Len(trim(t.chars)) = 0

\* An error's message, as the set of the keywords it contains.
Keywords == {"quota", "invalid", "permission"}
ErrorMessages == {{}} \cup {{k} : k \in Keywords}

\* The error the catch block throws for an error whose message holds the
\* keywords ks (lines 101-114); orig is rethrown when none matches.
Classify(ks, orig) ==
    IF "quota" \in ks THEN "Gemini API quota exceeded"
    ELSE IF "invalid" \in ks THEN "Invalid Gemini API key"
    ELSE IF "permission" \in ks THEN "API key lacks permissions"
    ELSE orig

\* A sample of the static knowledge base and of the calls' arguments.
SampleKB ==
    <<[category |-> <<"A">>, topic |-> <<"b", "b">>, content |-> 1],
      [category |-> <<"b">>, topic |-> <<"b">>, content |-> 2]>>
GenInputs ==
    {[userInput |-> <<"a">>, hist |-> History("absent", 0)],
     [userInput |-> <<"B", "a">>, hist |-> History("list", 6)]}

\* A call not yet made: its arguments, whether initialize() succeeded for it,
\* the knowledge and conversation parts of its prompt, whether the model has
\* answered and with what text, the calls it made to the key manager and its
\* end, and how it ended.
NoCall ==
    [pc |-> "none", args |-> [userInput |-> <<>>, hist |-> History("absent", 0)],
     initialized |-> FALSE, knowledge |-> <<>>, conversation |-> <<>>,
     answered |-> FALSE, text |-> [present |-> FALSE, chars |-> <<>>],
     log |-> <<>>, outcome |-> "none", value |-> <<>>, error |-> ""]

InitGemini ==
    /\ genAI = "none"
    /\ curKey \in {"none", "default"}
    /\ keyWorking = FALSE
    /\ calls = [c \in Calls |-> NoCall]

IdleGemini ==
    /\ genAI = "none"
    /\ curKey = "none"
    /\ keyWorking = FALSE
    /\ calls = [c \in Calls |-> NoCall]

\* initialize() without the early return of line 17: a client is constructed
\* from the current key whenever there is one.
InitializeClientAnew(ok) ==
    IF curKey # "none" /\ ok THEN curKey ELSE genAI

\* initialize() (lines 16-33): the value it returns, with the constructor
\* succeeding (ok) or throwing.
InitializeResult(ok) == genAI # "none" \/ (curKey # "none" /\ ok)
\* initialize(): the memoized client it leaves.
InitializeClient(ok) ==
    IF genAI # "none" THEN genAI
    ELSE IF curKey # "none" /\ ok THEN curKey
    ELSE "none"

\* generateResponse(userInput, context) to its first await (lines 35-41):
\* initialize() runs to completion.
GenCall(c, in) ==
    /\ calls[c].pc = "none"
    /\ \A d \in Calls : d < c => calls[d].pc # "none"
    /\ \E ok \in BOOLEAN :
          /\ genAI' = InitializeClient(ok)
          /\ calls' = [calls EXCEPT ![c] =
                 [@ EXCEPT !.pc = "init", !.args = in,
                           !.initialized = InitializeResult(ok)]]
    /\ UNCHANGED <<curKey, keyWorking>>
    /\ UNCHANGED nonGemini

\* The 'no API key' error of line 43.
NoKeyError == "Gemini Direct Service not available - no API key"

\* The call ends by throwing error e.
Throws(c, e) ==
    calls' = [calls EXCEPT ![c] =
        [@ EXCEPT !.pc = "done", !.outcome = "threw", !.error = e,
                  !.log = Append(@, "throw")]]

\* generateResponse resumed (lines 42-89): the 'no API key' error, or the
\* prompt is built and the request sent; getGenerativeModel may throw.
GenResume(c) ==
    /\ calls[c].pc = "init"
    /\ IF ~calls[c].initialized \/ genAI = "none"
       THEN Throws(c, NoKeyError)
       ELSE LET prompted ==
                    [calls[c] EXCEPT
                        !.knowledge =
                            RelevantKnowledge(calls[c].args.userInput, SampleKB),
                        !.conversation = ConversationContext(calls[c].args.hist)]
            IN \/ calls' = [calls EXCEPT ![c] = [prompted EXCEPT !.pc = "model"]]
               \/ \E ks \in ErrorMessages :
                     calls' = [calls EXCEPT ![c] =
                         [prompted EXCEPT !.pc = "done", !.outcome = "threw",
                                          !.error = Classify(ks, "model error"),
                                          !.log = Append(@, "throw")]]
    /\ UNCHANGED <<genAI, curKey, keyWorking>>
    /\ UNCHANGED nonGemini

\* The model's answer has arrived (lines 89-114): generateContent or
\* response.text() fails, or the text is checked, the key marked as working
\* and the trimmed text returned.
GenSettle(c) ==
    /\ calls[c].pc = "model"
    /\ \/ /\ \E ks \in ErrorMessages : Throws(c, Classify(ks, "model error"))
          /\ UNCHANGED keyWorking
       \/ \E t \in ResponseTexts :
             IF IsEmptyResponse(t)
             THEN /\ calls' = [calls EXCEPT ![c] =
                        [@ EXCEPT !.pc = "done", !.answered = TRUE, !.text = t,
                                  !.outcome = "threw",
                                  !.error = Classify({}, "Empty response from Gemini"),
                                  !.log = Append(@, "throw")]]
                  /\ UNCHANGED keyWorking
             ELSE /\ keyWorking' = TRUE
                  /\ calls' = [calls EXCEPT ![c] =
                        [@ EXCEPT !.pc = "done", !.answered = TRUE, !.text = t,
                                  !.outcome = "returned",
                                  !.value = trim(t.chars),
                                  !.log = @ \o <<"mark", "return">>]]
    /\ UNCHANGED <<genAI, curKey>>
    /\ UNCHANGED nonGemini

\* isAvailable() (lines 172-174)
IsAvailable ==
    /\ \E ok \in BOOLEAN : genAI' = InitializeClient(ok)
    /\ UNCHANGED <<curKey, keyWorking, calls>>
    /\ UNCHANGED nonGemini

\* The key manager's current key changes (a key is added, rotated, removed).
KeyChange ==
    /\ \E k \in {"none"} \cup Keys : k # curKey /\ curKey' = k
    /\ UNCHANGED <<genAI, keyWorking, calls>>
    /\ UNCHANGED nonGemini

NextGemini ==
    \/ \E c \in Calls, in \in GenInputs : GenCall(c, in)
    \/ \E c \in Calls : GenResume(c)
    \/ \E c \in Calls : GenSettle(c)
    \/ IsAvailable
    \/ KeyChange

(***************************************************************************)
(*        The list functions on their own: truncation and filtering        *)
(***************************************************************************)

KBPool ==
    {[category |-> <<"A">>, topic |-> <<"b", "b">>],
     [category |-> <<"a", "b">>, topic |-> <<"B">>],
     [category |-> <<"b", "a">>, topic |-> <<"b", "a">>]}
InputChars == {"a", "A", "b"}

\* The knowledge bases: up to MaxKB entries of the pool, the content of each
\* telling its place.
KnowledgeBases ==
    {[i \in 1..Len(k) |->
         [category |-> k[i].category, topic |-> k[i].topic, content |-> i]] :
     k \in UNION {[1..n -> KBPool] : n \in 0..MaxKB}}

PureInputs ==
    {[kind |-> "msgs", hist |-> h, n |-> n, o |-> o, userInput |-> <<>>, kb |-> <<>>] :
         h \in {"list"}, n \in 0..MaxMsgs, o \in 0..MaxMsgs}
    \cup {[kind |-> "msgs", hist |-> h, n |-> 0, o |-> 0, userInput |-> <<>>, kb |-> <<>>] :
         h \in {"absent", "norecent"}}
    \cup {[kind |-> "kb", hist |-> "absent", n |-> 0, o |-> 0, userInput |-> s, kb |-> k] :
         s \in Strings(InputChars, MaxInputLen), k \in KnowledgeBases}

\* The request that carries the input's messages to a proxy.
RequestOf(v, in) ==
    [variant |-> v, method |-> "POST", body |-> "object",
     msgs |-> [kind |-> "array", items |-> MsgList(in.n, in.o)],
     key |-> TRUE, ctxBad |-> FALSE]

InitPure ==
    /\ pIn \in PureInputs
    /\ pStage = "input"
    /\ pOut = <<>>

IdlePure ==
    /\ pIn = [kind |-> "msgs", hist |-> "absent", n |-> 0, o |-> 0,
              userInput |-> <<>>, kb |-> <<>>]
    /\ pStage = "input"
    /\ pOut = <<>>

\* The direct client renders its conversation context.
ApplyDirect ==
    /\ pStage = "input" /\ pIn.kind = "msgs"
    /\ pOut' = ConversationContext(History(pIn.hist, pIn.n))
    /\ pStage' = "direct"
    /\ UNCHANGED pIn
    /\ UNCHANGED nonPure

\* Variant A builds the messages of its gateway request.
ApplyVariantA ==
    /\ pStage = "input" /\ pIn.kind = "msgs" /\ pIn.hist = "list"
    /\ pOut' = PreFetchA(RequestOf("A", pIn)).payload
    /\ pStage' = "A"
    /\ UNCHANGED pIn
    /\ UNCHANGED nonPure

\* Variant B builds the messages of its gateway request.
ApplyVariantB ==
    /\ pStage = "input" /\ pIn.kind = "msgs" /\ pIn.hist = "list"
    /\ pOut' = PreFetchB(RequestOf("B", pIn)).payload
    /\ pStage' = "B"
    /\ UNCHANGED pIn
    /\ UNCHANGED nonPure

\* The direct client selects the knowledge for a user input.
ApplyFilter ==
    /\ pStage = "input" /\ pIn.kind = "kb"
    /\ pOut' = RelevantKnowledge(pIn.userInput, pIn.kb)
    /\ pStage' = "filter"
    /\ UNCHANGED pIn
    /\ UNCHANGED nonPure

NextPure ==
    \/ ApplyDirect
    \/ ApplyVariantA
    \/ ApplyVariantB
    \/ ApplyFilter


(***************************************************************************)
(*                            Specifications                               *)
(***************************************************************************)

\* The speech wrapper and its platform.
InitSpecTTS == InitTTS /\ InitProxy /\ IdleGemini /\ IdlePure
SpecTTS == InitSpecTTS /\ [][NextTTS]_vars

\* One edge proxy handling requests, one after the other.
InitSpecProxy == IdleTTS /\ InitProxy /\ IdleGemini /\ IdlePure
SpecProxy == InitSpecProxy /\ [][NextProxy]_vars

\* Concurrent generateResponse and isAvailable calls on the shared service.
InitSpecGemini == IdleTTS /\ InitProxy /\ InitGemini /\ IdlePure
SpecGemini == InitSpecGemini /\ [][NextGemini]_vars

\* The truncation and filtering functions applied to every input in bounds.
InitSpecPure == IdleTTS /\ InitProxy /\ IdleGemini /\ InitPure
SpecPure == InitSpecPure /\ [][NextPure]_vars

(***************************************************************************)
(*                    Properties of EnhancedTTSService                     *)
(***************************************************************************)

\* speak() call u has installed its utterance (line 45 ran for it).
Installed(u) == ust[u] \in {"timer", "queued", "speaking", "evt", "finished"}

\* C1: a new speak() pre-empts the earlier utterance and nothing is queued:
\* the platform never holds two utterances, and once a later speak() has
\* installed its utterance no earlier utterance is in the platform.
SpeakPreempts ==
    /\ Len(queue) <= 1
    /\ \A u, v \in Utter : (u < v /\ Installed(v)) => ~InQueue(u)

\* C2: the promise of an utterance that stop() or a later speak() cut off is
\* not rejected (it resolves), and no promise is settled twice.
CutOffResolves ==
    \A u \in Utter :
        /\ cutOff[u] => promise[u] # "rejected"
        /\ settles[u] <= 1

\* C3: in the state stop() leaves behind, isSpeaking() is false, whether or
\* not a handle was held and whether or not the platform's flag is cleared.
StopLeavesNotSpeaking == lastOp = "stop" => ~isSpeaking

\* C3 witness: stop() has just cancelled an utterance that was being spoken
\* and the platform's speaking flag is still set.
StopWhileFlagSet ==
    /\ lastOp = "stop"
    /\ speaking
    /\ \E u \in Utter : cutOff[u] /\ ust[u] = "evt"

\* C4: in the state stop() leaves behind nothing is playing or queued in the
\* platform (cancel was invoked if anything was) and the handle is null.
StopCancelsPlayback ==
    lastOp = "stop" => (queue = <<>> /\ currentUtterance = 0)

\* Utterance u begins playback in this step.
BeginsPlayback(u) == ust[u] # "speaking" /\ ust'[u] = "speaking"

\* C12: once stop() has returned, no utterance that a speak() call created
\* before it begins playback; in particular an utterance whose 50 ms timer
\* was armed when stop() ran is never spoken.
StoppedNeverPlays ==
    [][\A u \in Utter : stopped[u] => ~BeginsPlayback(u)]_vars

(***************************************************************************)
(*                      Properties of the edge proxies                     *)
(***************************************************************************)

RateLimitFlavoured ==
    {"Rate limit exceeded, please try again later",
     "Lovable AI rate limit exceeded. Please try again in a moment."}

CreditsFlavoured ==
    {"Payment required, please add credits to your workspace",
     "Lovable AI credits exhausted. Please add credits at Settings > Workspace > Usage."}

ListedFailure ==
    \/ req.body = "unparseable"
    \/ req.msgs.kind \in {"absent", "object"}
    \/ req.msgs.kind = "string" /\ req.variant # "A"
    \/ ~req.key
    \/ fetches = 1 /\ gwStatus = 0
    \/ gwStatus = 500
    \/ gwStatus = 200 /\ gwBody = "notjson"

\* C6: every request ends in exactly one response with the cross-origin
\* headers, empty for OPTIONS and JSON otherwise; every exception raised, and
\* each listed failure, yields status 500 with success=false and the error.
EveryRequestAnswered ==
    /\ pc # "done" => nresp = 0
    /\ pc = "done" =>
          /\ nresp = 1
          /\ resp.cors
          /\ resp.body = (IF req.method = "OPTIONS" THEN "empty" ELSE "json")
          /\ req.method = "OPTIONS" => (resp.status = 200 /\ threw = "none")
          /\ (req.method # "OPTIONS" /\ ListedFailure) => threw # "none"
          /\ threw # "none" =>
                (resp.status = 500 /\ ~resp.success /\ resp.error = threw)

\* C6 witness: Variant A has answered a request whose gateway body, after a
\* 200, could not be parsed.
ExceptionAnswered ==
    /\ pc = "done"
    /\ req.variant = "A"
    /\ gwStatus = 200
    /\ gwBody = "notjson"
    /\ threw = "SyntaxError"

\* C7: Variant C issues no gateway request for a body without a messages
\* array and answers it with a failure; when the body is a JSON object the
\* error is the validation error, also when the gateway key is missing.
ValidationBeforeGateway ==
    (pc # "idle" /\ req.variant = "C" /\ req.method # "OPTIONS"
        /\ req.msgs.kind # "array") =>
        /\ fetches = 0
        /\ pc \in {"json", "done"}
        /\ pc = "done" =>
              /\ resp.status = 500
              /\ ~resp.success
              /\ req.body = "object" =>
                    (threw = "Messages array is required" /\ resp.error = threw)

\* C7 witness: Variant C, with no gateway key configured, has answered a POST
\* whose messages is a string.
ValidationRejected ==
    /\ pc = "done"
    /\ req.variant = "C"
    /\ req.method = "POST"
    /\ req.body = "object"
    /\ req.msgs.kind = "string"
    /\ ~req.key
    /\ resp.error = "Messages array is required"

(***************************************************************************)
(*          Properties of the truncation and of the knowledge filter       *)
(***************************************************************************)

\* out[i] is the rendering of the i-th of the last Len(out) elements of src.
IsTailOf(out, src, same(_, _)) ==
    \A i \in 1..Len(out) : same(out[i], src[Len(src) - Len(out) + i])

SameLine(l, m) ==
    /\ l.content = m.content
    /\ l.who = (IF m.sender = "user" THEN "User" ELSE "Eliza")
SameMessage(x, m) == x = m
SameRoleAndText(x, m) ==
    /\ x.role = m.role
    /\ x.content.val = m.content.val
    /\ x.content.type = "string"
    /\ x.content.json = (m.content.type # "string")

\* C8: the outgoing payload holds exactly the last min(n, N) messages in their
\* order, N = 5 in the direct client, 10 in Variant A and 3 in Variant B, in
\* the proxies after one leading system message.
TruncationKeepsLast ==
    /\ pStage = "direct" =>
          /\ Len(pOut) = (IF pIn.hist = "list" THEN Min(pIn.n, 5) ELSE 0)
          /\ IsTailOf(pOut, DMsgList(pIn.n), SameLine)
    /\ pStage = "A" =>
          /\ Len(pOut) = 1 + Min(pIn.n, 10)
          /\ pOut[1].role = "system"
          /\ IsTailOf(Tail(pOut), MsgList(pIn.n, pIn.o), SameMessage)
    /\ pStage = "B" =>
          /\ Len(pOut) = 1 + Min(pIn.n, 3)
          /\ pOut[1].role = "system"
          /\ IsTailOf(Tail(pOut), MsgList(pIn.n, pIn.o), SameRoleAndText)

\* C8 witness: Variant A has cut a list of more than ten messages.
LongListTruncated ==
    /\ pStage = "A"
    /\ pIn.n > 10
    /\ Len(pOut) = 11
    /\ pOut[2].id = pIn.n - 9

\* s occurs in userInput, letter case ignored.
OccursIgnoringCase(userInput, s) ==
    \E k \in 0..(Len(userInput) - Len(s)) :
        \A j \in 1..Len(s) : Lower(userInput[k + j]) = Lower(s[j])

\* The places of the knowledge base whose category or topic occurs in the
\* input, and the k-th of them.
MatchingPlaces ==
    {i \in 1..Len(pIn.kb) :
        \/ OccursIgnoringCase(pIn.userInput, pIn.kb[i].category)
        \/ OccursIgnoringCase(pIn.userInput, pIn.kb[i].topic)}
NthMatch(k) ==
    CHOOSE i \in MatchingPlaces : Cardinality({j \in MatchingPlaces : j < i}) = k - 1

\* C9: the knowledge selected is the first three (or fewer) entries, in
\* knowledge-base order, whose category or topic occurs in the input, letter
\* case ignored; no other entry is selected.
KnowledgeIsFirstMatches ==
    pStage = "filter" =>
        /\ Len(pOut) <= 3
        /\ Len(pOut) = Min(Cardinality(MatchingPlaces), 3)
        /\ \A k \in 1..Len(pOut) : pOut[k] = pIn.kb[NthMatch(k)]

\* C9 witness: four entries match, one of them only because case is ignored,
\* and an entry that does not match lies before the third selected one.
FourthMatchDropped ==
    /\ pStage = "filter"
    /\ Cardinality(MatchingPlaces) > 3
    /\ Len(pOut) = 3
    /\ pOut[3].content > 3
    /\ \E k \in 1..3 : pOut[k].category # toLowerCase(pOut[k].category)

(***************************************************************************)
(*                     Properties of GeminiDirectService                   *)
(***************************************************************************)

\* The text is absent, empty or made of white space only.
Blank(t) == ~t.present \/ \A i \in 1..Len(t.chars) : t.chars[i] = " "

\* C10: a call that returns returns a non-empty trimmed text after exactly
\* one markKeyAsWorking; a call that fails never invoked markKeyAsWorking; a
\* blank model response makes the call fail with the empty-response error.
NeverReturnsEmpty ==
    \A c \in Calls :
        calls[c].pc = "done" =>
            /\ calls[c].outcome \in {"returned", "threw"}
            /\ calls[c].outcome = "returned" =>
                  /\ calls[c].value # <<>>
                  /\ calls[c].value[1] # " "
                  /\ calls[c].value[Len(calls[c].value)] # " "
                  /\ calls[c].log = <<"mark", "return">>
                  /\ keyWorking
            /\ calls[c].outcome = "threw" => calls[c].log = <<"throw">>
            /\ Blank(calls[c].text) => calls[c].outcome = "threw"
            /\ (calls[c].answered /\ Blank(calls[c].text)) =>
                  calls[c].error = "Empty response from Gemini"

\* C10 witness: the model answered with white space only and the call failed
\* without the key having been marked as working.
WhitespaceRejected ==
    \E c \in Calls :
        /\ calls[c].pc = "done"
        /\ calls[c].answered
        /\ calls[c].text.present
        /\ calls[c].text.chars # <<>>
        /\ Blank(calls[c].text)
        /\ calls[c].outcome = "threw"
        /\ ~keyWorking

\* Call c is made in this step: generateResponse runs initialize().
CallMade(c) == calls[c].pc = "none" /\ calls'[c].pc = "init"

\* In one step: a client once memoized is kept as it is; with no client and
\* no key no client appears; a call made with no client and no key finds the
\* service not initialized.
MemoKept ==
    /\ genAI # "none" => genAI' = genAI
    /\ (genAI = "none" /\ curKey = "none") => genAI' = "none"
    /\ \A c \in Calls :
          (CallMade(c) /\ genAI = "none" /\ curKey = "none") =>
              (~calls'[c].initialized /\ genAI' = "none")

\* A call that found the service not initialized has not invoked the model
\* and ends with the 'no API key' error; a call goes on to the model only
\* with a client.
NoKeyCallFails ==
    \A c \in Calls :
        /\ (calls[c].pc # "none" /\ ~calls[c].initialized) =>
              /\ calls[c].pc \in {"init", "done"}
              /\ ~calls[c].answered
              /\ calls[c].pc = "done" =>
                    /\ calls[c].outcome = "threw"
                    /\ calls[c].error = NoKeyError
                    /\ calls[c].log = <<"throw">>
        /\ (calls[c].pc = "model" \/ calls[c].answered) =>
              (calls[c].initialized /\ genAI # "none")

\* C11: across generateResponse, isAvailable and key changes the memoized
\* client, once non-null, is never replaced or reset (so it is constructed
\* at most once); a call made with no client and no key available leaves the
\* client null and fails with the 'no API key' error without invoking the
\* model.
ClientConstructedOnce == [][MemoKept]_vars /\ []NoKeyCallFails

\* C11 witness: a call made without a key failed with the 'no API key' error,
\* a later call made once a key was available initialized the client and
\* returned, and the key manager's key has since changed while the client
\* stayed the one constructed.
LaterCallInitializes ==
    \E c, d \in Calls :
        /\ c < d
        /\ calls[c].pc = "done"
        /\ ~calls[c].initialized
        /\ calls[c].error = NoKeyError
        /\ calls[d].pc = "done"
        /\ calls[d].initialized
        /\ calls[d].outcome = "returned"
        /\ genAI # "none"
        /\ curKey # genAI

=============================================================================
